---- MODULE Spec2Model ----
(***************************************************************************)
(* Ride lifecycle and fare engine of the mock cab booking system.          *)
(*                                                                         *)
(* Two implementations of the same registry are modelled:                  *)
(*   impl = "service" : app/services.py CabBookingService behind the       *)
(*                      FastAPI handlers of app/routes.py.  Every handler  *)
(*                      is an `async def` without an await, so a handler   *)
(*                      runs to completion: one action per handler.        *)
(*   impl = "system"  : app.py CabBookingSystem, called directly.  Its     *)
(*                      assign_driver sleeps between the lookup of the     *)
(*                      ride and its writes, so it is two steps of a       *)
(*                      thread; its other methods have no suspension       *)
(*                      point and are one action each.                     *)
(*                                                                         *)
(* Fixed-point units: latitude/longitude in 1e-4 degree, distance in       *)
(* metres, fare components in 1e-4 rupee, surge in tenths, fare total in   *)
(* paise, distance_km in 1/100 km.  An Optional value is a set: {} is      *)
(* None and {v} is v.  Timestamps are readings of a logical clock.         *)
(***************************************************************************)
EXTENDS Integers, Sequences, FiniteSets, TLC

VARIABLES impl, rides, now, pc, last, calls

vars == <<impl, rides, now, pc, last, calls>>

-----------------------------------------------------------------------------
(* Bounds of the model *)

\* ride identifiers the uuid prefix can take
MaxRides == 2
\* threads calling into CabBookingSystem
MaxThreads == 2
\* calls made in one run
MaxCalls == 4

RideIds == 1..MaxRides
Threads == 1..MaxThreads

-----------------------------------------------------------------------------
(* models.py: RideStatus, CabType, Location, Fare *)

SEARCHING == "searching"
ACCEPTED == "accepted"
ARRIVING == "arriving"
IN_PROGRESS == "in_progress"
COMPLETED == "completed"
CANCELLED == "cancelled"

RideStatus == {SEARCHING, ACCEPTED, ARRIVING, IN_PROGRESS, COMPLETED, CANCELLED}

\* RideStatus[name]: the member whose NAME is name; {} stands for KeyError
RideStatusByName(name) ==
    CASE name = "SEARCHING" -> {SEARCHING}
      [] name = "ACCEPTED" -> {ACCEPTED}
      [] name = "ARRIVING" -> {ARRIVING}
      [] name = "IN_PROGRESS" -> {IN_PROGRESS}
      [] name = "COMPLETED" -> {COMPLETED}
      [] name = "CANCELLED" -> {CANCELLED}
      [] OTHER -> {}

\* CabType members; per_min is in tenths of a rupee per minute
CabType ==
    [MINI |-> [name |-> "Mini", base_fare |-> 50, per_km |-> 12, per_min |-> 20, capacity |-> 4],
     SEDAN |-> [name |-> "Sedan", base_fare |-> 80, per_km |-> 15, per_min |-> 25, capacity |-> 4],
     SUV |-> [name |-> "SUV", base_fare |-> 120, per_km |-> 20, per_min |-> 30, capacity |-> 6],
     LUXURY |-> [name |-> "Luxury", base_fare |-> 200, per_km |-> 30, per_min |-> 50, capacity |-> 4]]

CabTypeByName_or_mini(name) == IF name \in DOMAIN CabType THEN {name} ELSE {"MINI"}

\* CabType[name]: {} stands for KeyError
CabTypeByName(name) == IF name \in DOMAIN CabType THEN {name} ELSE {}

\* str.upper() on the request strings the model sends
upper(s) ==
    CASE s = "sedan" -> "SEDAN"
      [] s = "mini" -> "MINI"
      [] s = "completed" -> "COMPLETED"
      [] s = "arriving" -> "ARRIVING"
      [] OTHER -> s

Abs(x) == IF x < 0 THEN -x ELSE x

RECURSIVE IsqrtIter(_, _, _)
IsqrtIter(n, lo, hi) ==
    IF lo >= hi THEN lo
    ELSE LET mid == (lo + hi + 1) \div 2
         IN IF mid * mid <= n THEN IsqrtIter(n, mid, hi) ELSE IsqrtIter(n, lo, mid - 1)

\* floor of the square root
Isqrt(n) == IsqrtIter(n, 0, 46340)

\* round(x / d) as Python's round does on a tie: to the even neighbour
RoundDiv(x, d) ==
    LET q == x \div d
        r == x % d
    IN IF 2 * r > d THEN q + 1
       ELSE IF 2 * r < d THEN q
       ELSE IF q % 2 = 0 THEN q ELSE q + 1

DistanceScale == 111
AvgSpeed == 30
MinutesPerHour == 60

distance_to_manhattan(a, b) ==
    LET lat_diff == Abs(a.latitude - b.latitude)
        lng_diff == Abs(a.longitude - b.longitude)
    IN ((lat_diff + lng_diff) * 10 * DistanceScale) \div 100

\* Location.distance_to, in metres
distance_to(a, b) ==
    LET lat_diff == Abs(a.latitude - b.latitude)
        lng_diff == Abs(a.longitude - b.longitude)
    IN (Isqrt((lat_diff * lat_diff + lng_diff * lng_diff) * 100) * DistanceScale) \div 100

calculate_total_without_surge(fare) ==
    LET subtotal == fare.base_fare + fare.distance_fare + fare.time_fare
    IN [fare EXCEPT !.total = RoundDiv(subtotal, 100)]

\* Fare.calculate_total: total in paise from components in 1e-4 rupee and
\* the surge in tenths
calculate_total(fare) ==
    LET subtotal == fare.base_fare + fare.distance_fare + fare.time_fare
    IN [fare EXCEPT !.total = RoundDiv(subtotal * fare.surge_multiplier, 1000)]

PeakMorningFrom == 8
PeakMorningTo == 10
PeakEveningFrom == 17
PeakEveningTo == 20

get_surge_multiplier_exclusive_peak(hour) ==
    IF (PeakMorningFrom < hour /\ hour < PeakMorningTo)
         \/ (PeakEveningFrom < hour /\ hour < PeakEveningTo)
    THEN 12..20
    ELSE 10..13

\* _get_surge_multiplier: the values round(random.uniform(..), 1) can take
\* at the given hour of day, in tenths
get_surge_multiplier(hour) ==
    IF (PeakMorningFrom <= hour /\ hour <= PeakMorningTo)
         \/ (PeakEveningFrom <= hour /\ hour <= PeakEveningTo)
    THEN 12..20
    ELSE 10..13

\* get_fare_estimate with the surge drawn by _get_surge_multiplier given
get_fare_estimate(pickup, dropoff, cab_type, surge) ==
    LET distance == distance_to(pickup, dropoff)
        duration == (distance * MinutesPerHour) \div AvgSpeed
        cab_rates == CabType[cab_type]
    IN calculate_total(
         [base_fare |-> cab_rates.base_fare * 10000,
          distance_fare |-> distance * cab_rates.per_km * 10,
          time_fare |-> duration * cab_rates.per_min,
          surge_multiplier |-> surge,
          total |-> 0])

-----------------------------------------------------------------------------
(* models.py: Driver, Ride; utils.py: conversion to the response schema *)

\* Driver.generate_random: a new driver record; only its identity is kept,
\* and the driver generated by thread t at clock reading n is distinct from
\* every other one
generate_random(n, t) == [id |-> <<n, t>>]

\* Ride(...) as book_ride constructs it; created_at is the default factory
Ride(ride_id, cab_type, pickup, dropoff, distance, fare, t) ==
    [ride_id |-> ride_id,
     cab_type |-> cab_type,
     pickup |-> pickup,
     dropoff |-> dropoff,
     status |-> SEARCHING,
     driver |-> {},
     fare |-> {fare},
     created_at |-> t,
     accepted_at |-> {},
     started_at |-> {},
     completed_at |-> {},
     eta_minutes |-> 0,
     distance_km |-> RoundDiv(distance, 10),
     duration_minutes |-> ((distance * MinutesPerHour) \div AvgSpeed) \div 1000]

convert_location_to_model(schema) ==
    [latitude |-> schema.latitude, longitude |-> schema.longitude, address |-> schema.address]

convert_location_to_schema(model) ==
    [latitude |-> model.latitude, longitude |-> model.longitude, address |-> model.address]

convert_fare_to_schema(model) ==
    [base_fare |-> model.base_fare,
     distance_fare |-> model.distance_fare,
     time_fare |-> model.time_fare,
     surge_multiplier |-> model.surge_multiplier,
     total |-> model.total]

convert_driver_to_schema(model) == [id |-> model.id]

convert_ride_to_schema(model) ==
    [ride_id |-> model.ride_id,
     cab_type |-> model.cab_type,
     pickup |-> convert_location_to_schema(model.pickup),
     dropoff |-> convert_location_to_schema(model.dropoff),
     status |-> model.status,
     driver |-> {convert_driver_to_schema(d) : d \in model.driver},
     fare |-> {convert_fare_to_schema(f) : f \in model.fare},
     created_at |-> model.created_at,
     accepted_at |-> model.accepted_at,
     started_at |-> model.started_at,
     completed_at |-> model.completed_at,
     eta_minutes |-> model.eta_minutes,
     distance_km |-> model.distance_km,
     duration_minutes |-> model.duration_minutes]

-----------------------------------------------------------------------------
(* services.py / app.py: the writes of each registry operation *)

EtaMin == 3
EtaMax == 10
CancellationFee == 50

HTTP_200_OK == 200
HTTP_201_CREATED == 201
HTTP_400_BAD_REQUEST == 400
HTTP_404_NOT_FOUND == 404

rides_get_or_any(rs, ride_id) ==
    IF ride_id \in DOMAIN rs THEN {rs[ride_id]}
    ELSE IF DOMAIN rs = {} THEN {}
    ELSE {rs[CHOOSE k \in DOMAIN rs : TRUE]}

\* self.rides.get(ride_id)
rides_get(rs, ride_id) == IF ride_id \in DOMAIN rs THEN {rs[ride_id]} ELSE {}

found_other(rs, ride_id) ==
    LET others == {rs[k] : k \in DOMAIN rs \ {ride_id}}
    IN IF others = {} THEN rs[ride_id] ELSE CHOOSE r \in others : TRUE

\* the Ride object a successful lookup returned
found(rs, ride_id) == CHOOSE r \in rides_get(rs, ride_id) : TRUE

rides_set_if_absent(rs, ride_id, ride) ==
    IF ride_id \in DOMAIN rs THEN rs
    ELSE [k \in DOMAIN rs \cup {ride_id} |-> IF k = ride_id THEN ride ELSE rs[k]]

\* self.rides[ride_id] = ride
rides_set(rs, ride_id, ride) ==
    [k \in DOMAIN rs \cup {ride_id} |-> IF k = ride_id THEN ride ELSE rs[k]]

\* book_ride: the ride constructed and stored
book_ride(ride_id, pickup, dropoff, cab_type, surge, t) ==
    Ride(ride_id, cab_type, pickup, dropoff, distance_to(pickup, dropoff),
         get_fare_estimate(pickup, dropoff, cab_type, surge), t)

assign_driver_restamping(ride, driver, t, eta) ==
    [ride EXCEPT !.driver = {driver},
                 !.status = ACCEPTED,
                 !.accepted_at = {t},
                 !.created_at = t,
                 !.eta_minutes = eta]

assign_driver_keep_status(ride, driver, t, eta) ==
    [ride EXCEPT !.driver = {driver},
                 !.accepted_at = {t},
                 !.eta_minutes = eta]

\* assign_driver: the four writes after the lookup
assign_driver(ride, driver, t, eta) ==
    [ride EXCEPT !.driver = {driver},
                 !.status = ACCEPTED,
                 !.accepted_at = {t},
                 !.eta_minutes = eta]

update_ride_status_stamping_arrival(ride, new_status, t) ==
    LET r == [ride EXCEPT !.status = new_status]
    IN IF new_status = IN_PROGRESS THEN [r EXCEPT !.started_at = {t}]
       ELSE IF new_status = COMPLETED THEN [r EXCEPT !.completed_at = {t}]
       ELSE IF new_status = ARRIVING THEN [r EXCEPT !.accepted_at = {t}]
       ELSE r

update_ride_status_from_arriving(ride, new_status, t) ==
    IF new_status = IN_PROGRESS /\ ride.status # ARRIVING THEN ride
    ELSE LET r == [ride EXCEPT !.status = new_status]
         IN IF new_status = IN_PROGRESS THEN [r EXCEPT !.started_at = {t}]
            ELSE IF new_status = COMPLETED THEN [r EXCEPT !.completed_at = {t}]
            ELSE r

\* update_ride_status: the writes after the lookup
update_ride_status(ride, new_status, t) ==
    LET r == [ride EXCEPT !.status = new_status]
    IN IF new_status = IN_PROGRESS THEN [r EXCEPT !.started_at = {t}]
       ELSE IF new_status = COMPLETED THEN [r EXCEPT !.completed_at = {t}]
       ELSE r

cancel_ride_charging_fare(ride) ==
    [ride EXCEPT !.status = CANCELLED,
                 !.fare = {[f EXCEPT !.total = @ + CancellationFee * 100] : f \in @}]

\* cancel_ride: the status write
cancel_ride(ride) == [ride EXCEPT !.status = CANCELLED]

\* cancel_ride: the fee, computed from the ride after the status write
cancellation_fee(ride) ==
    IF ride.status \in {ACCEPTED, ARRIVING} THEN CancellationFee ELSE 0

\* cancel_ride: the dict returned by CabBookingService
cancel_result(ride_id, reason, fee) ==
    [ride_id |-> ride_id, status |-> "cancelled", reason |-> reason, cancellation_fee |-> fee]

get_ride_history_by_timestamp(rs) ==
    {rs[k] : k \in {j \in DOMAIN rs : rs[j].completed_at # {}}}

\* get_ride_history: the rides of the registry that are COMPLETED
get_ride_history(rs) == {rs[k] : k \in {j \in DOMAIN rs : rs[j].status = COMPLETED}}

\* _complete_ride reads ride.driver.name: AttributeError when driver is None
complete_ride_raises(ride) == ride.driver = {}

-----------------------------------------------------------------------------
(* What the last finished call was given, and what it returned or raised *)

\* arg: the request string (cab type name, status name, reason);
\* request: what get_fare_estimate was called with; fare: what it returned;
\* target: the status the call asks the ride to take;
\* pre_status: the ride's status when the call's writes begin ("" when the
\* ride is not in the registry); seen_status: its status at the call's lookup
Outcome(op, t, ride_id, arg, target, pre, error, detail, http) ==
    [op |-> op, thread |-> t, ride_id |-> ride_id, arg |-> arg, target |-> target,
     pre_status |-> pre, seen_status |-> pre,
     error |-> error, detail |-> detail, http |-> http,
     ride |-> {}, driver |-> {}, cancel |-> {}, printed_fee |-> {}, history |-> {},
     request |-> {}, fare |-> {}, hour |-> {}]

StatusOf(rs, ride_id) == IF ride_id \in DOMAIN rs THEN rs[ride_id].status ELSE ""

Idle == [at |-> "idle", ride_id |-> 0, attached |-> FALSE, seen |-> ""]

-----------------------------------------------------------------------------
(* Initial state: the registry is constructed empty *)

Init ==
    /\ impl \in {"service", "system"}
    /\ rides = [k \in {} |-> {}]
    /\ now = 0
    /\ pc = [t \in Threads |-> Idle]
    /\ last = Outcome("init", 0, 0, "", "", "", "none", "", 0)
    /\ calls = 0

\* datetime.now(): every call starts at a later reading of the clock than the
\* call started before it
Advance == now' = now + 1

\* a call is made
Call ==
    /\ calls < MaxCalls
    /\ calls' = calls + 1
    /\ Advance

-----------------------------------------------------------------------------
(* routes.py: the handlers in front of CabBookingService *)

\* POST /fare/estimate
route_get_fare_estimate(cab_name, pickup_schema, dropoff_schema, hour, surge) ==
    /\ impl = "service"
    /\ Call
    /\ surge \in get_surge_multiplier(hour)
    /\ IF CabTypeByName(upper(cab_name)) = {}
       THEN last' = Outcome("get_fare_estimate", 0, 0, cab_name, "", "", "KeyError",
                            "Invalid cab type", HTTP_400_BAD_REQUEST)
       ELSE LET cab_type == CHOOSE c \in CabTypeByName(upper(cab_name)) : TRUE
                pickup == convert_location_to_model(pickup_schema)
                dropoff == convert_location_to_model(dropoff_schema)
                fare == get_fare_estimate(pickup, dropoff, cab_type, surge)
            IN last' = [Outcome("get_fare_estimate", 0, 0, cab_name, "", "", "none", "",
                                HTTP_200_OK)
                          EXCEPT !.request = {[pickup |-> pickup, dropoff |-> dropoff,
                                               cab_type |-> cab_type]},
                                 !.fare = {convert_fare_to_schema(fare)},
                                 !.hour = {hour}]
    /\ UNCHANGED <<impl, rides, pc>>

\* POST /rides/book
route_book_ride(cab_name, pickup_schema, dropoff_schema, ride_id, hour, surge) ==
    /\ impl = "service"
    /\ Call
    /\ surge \in get_surge_multiplier(hour)
    /\ IF CabTypeByName(upper(cab_name)) = {}
       THEN /\ last' = Outcome("book_ride", 0, 0, cab_name, "", "", "KeyError",
                               "Invalid cab type", HTTP_400_BAD_REQUEST)
            /\ UNCHANGED rides
       ELSE LET cab_type == CHOOSE c \in CabTypeByName(upper(cab_name)) : TRUE
                pickup == convert_location_to_model(pickup_schema)
                dropoff == convert_location_to_model(dropoff_schema)
                ride == book_ride(ride_id, pickup, dropoff, cab_type, surge, now)
            IN /\ rides' = rides_set(rides, ride_id, ride)
               /\ last' = [Outcome("book_ride", 0, ride_id, cab_name, SEARCHING,
                                   StatusOf(rides, ride_id), "none", "", HTTP_201_CREATED)
                             EXCEPT !.ride = {convert_ride_to_schema(ride)}]
    /\ UNCHANGED <<impl, pc>>

\* GET /rides/{ride_id}
route_get_ride(ride_id) ==
    /\ impl = "service"
    /\ Call
    /\ IF rides_get(rides, ride_id) = {}
       THEN last' = Outcome("get_ride", 0, ride_id, "", "", "", "ValueError",
                            "Ride not found", HTTP_404_NOT_FOUND)
       ELSE last' = [Outcome("get_ride", 0, ride_id, "", "", found(rides, ride_id).status,
                             "none", "", HTTP_200_OK)
                       EXCEPT !.ride = {convert_ride_to_schema(found(rides, ride_id))}]
    /\ UNCHANGED <<impl, rides, pc>>

\* POST /rides/{ride_id}/assign-driver
route_assign_driver(ride_id, eta) ==
    /\ impl = "service"
    /\ Call
    /\ eta \in EtaMin..EtaMax
    /\ IF rides_get(rides, ride_id) = {}
       THEN /\ last' = Outcome("assign_driver", 0, ride_id, "", ACCEPTED, "", "ValueError",
                               "Ride not found", HTTP_404_NOT_FOUND)
            /\ UNCHANGED rides
       ELSE LET driver == generate_random(now, 0)
                ride == assign_driver(found(rides, ride_id), driver, now, eta)
            IN /\ rides' = [rides EXCEPT ![ride.ride_id] = ride]
               /\ last' = [Outcome("assign_driver", 0, ride_id, "", ACCEPTED,
                                   found(rides, ride_id).status, "none", "", HTTP_200_OK)
                             EXCEPT !.ride = {convert_ride_to_schema(ride)},
                                    !.driver = {driver}]
    /\ UNCHANGED <<impl, pc>>

\* PATCH /rides/{ride_id}/status
route_update_ride_status(ride_id, status_name) ==
    /\ impl = "service"
    /\ Call
    /\ IF RideStatusByName(upper(status_name)) = {}
       THEN /\ last' = Outcome("update_ride_status", 0, ride_id, status_name, "",
                               StatusOf(rides, ride_id), "KeyError", "Invalid status",
                               HTTP_400_BAD_REQUEST)
            /\ UNCHANGED rides
       ELSE LET new_status == CHOOSE st \in RideStatusByName(upper(status_name)) : TRUE
            IN IF rides_get(rides, ride_id) = {}
               THEN /\ last' = Outcome("update_ride_status", 0, ride_id, status_name,
                                       new_status, "", "ValueError", "Ride not found",
                                       HTTP_404_NOT_FOUND)
                    /\ UNCHANGED rides
               ELSE LET ride == update_ride_status(found(rides, ride_id), new_status, now)
                    IN /\ rides' = [rides EXCEPT ![ride.ride_id] = ride]
                       /\ last' = [Outcome("update_ride_status", 0, ride_id, status_name,
                                           new_status, found(rides, ride_id).status, "none", "",
                                           HTTP_200_OK)
                                     EXCEPT !.ride = {convert_ride_to_schema(ride)}]
    /\ UNCHANGED <<impl, pc>>

\* POST /rides/{ride_id}/cancel
route_cancel_ride(ride_id, reason) ==
    /\ impl = "service"
    /\ Call
    /\ IF rides_get(rides, ride_id) = {}
       THEN /\ last' = Outcome("cancel_ride", 0, ride_id, reason, CANCELLED, "",
                               "ValueError", "Ride not found", HTTP_404_NOT_FOUND)
            /\ UNCHANGED rides
       ELSE LET ride == cancel_ride(found(rides, ride_id))
            IN /\ rides' = [rides EXCEPT ![ride.ride_id] = ride]
               /\ last' = [Outcome("cancel_ride", 0, ride_id, reason, CANCELLED,
                                   found(rides, ride_id).status, "none", "", HTTP_200_OK)
                             EXCEPT !.cancel =
                                 {cancel_result(ride_id, reason, cancellation_fee(ride))}]
    /\ UNCHANGED <<impl, pc>>

\* GET /rides/history/all
route_get_ride_history ==
    /\ impl = "service"
    /\ Call
    /\ last' = [Outcome("get_ride_history", 0, 0, "", "", "", "none", "", HTTP_200_OK)
                  EXCEPT !.history = {convert_ride_to_schema(r) : r \in get_ride_history(rides)}]
    /\ UNCHANGED <<impl, rides, pc>>

-----------------------------------------------------------------------------
(* app.py: CabBookingSystem called directly by the threads of one process *)

can_call_exclusive(p, t) == \A u \in DOMAIN p : p[u].at = "idle"

\* thread t can enter a method of CabBookingSystem: it is not itself inside
\* assign_driver, and no method takes a lock
can_call(p, t) == p[t].at = "idle"

\* a thread asleep in assign_driver holds a reference to the Ride object it
\* looked up; when book_ride stores a new object under that identifier the
\* reference keeps pointing at the old object, which is no longer in the registry
Detach(p, ride_id) ==
    [t \in DOMAIN p |->
        IF p[t].at \in {"sleep", "sim_search"} /\ p[t].ride_id = ride_id
        THEN [p[t] EXCEPT !.attached = FALSE]
        ELSE p[t]]

sys_get_fare_estimate(t, pickup, dropoff, cab_type, hour, surge) ==
    /\ impl = "system"
    /\ can_call(pc, t)
    /\ Call
    /\ surge \in get_surge_multiplier(hour)
    /\ last' = [Outcome("get_fare_estimate", 0, 0, cab_type, "", "", "none", "", 0)
                  EXCEPT !.request = {[pickup |-> pickup, dropoff |-> dropoff,
                                       cab_type |-> cab_type]},
                         !.fare = {get_fare_estimate(pickup, dropoff, cab_type, surge)},
                         !.hour = {hour}]
    /\ UNCHANGED <<impl, rides, pc>>

sys_book_ride(t, pickup, dropoff, cab_type, ride_id, hour, surge) ==
    /\ impl = "system"
    /\ can_call(pc, t)
    /\ Call
    /\ surge \in get_surge_multiplier(hour)
    /\ LET ride == book_ride(ride_id, pickup, dropoff, cab_type, surge, now)
       IN /\ rides' = rides_set(rides, ride_id, ride)
          /\ last' = [Outcome("book_ride", 0, ride_id, cab_type, SEARCHING,
                              StatusOf(rides, ride_id), "none", "", 0)
                        EXCEPT !.ride = {ride}]
    /\ pc' = Detach(pc, ride_id)
    /\ UNCHANGED impl

\* assign_driver up to time.sleep: the lookup
sys_assign_driver_lookup(t, ride_id) ==
    /\ impl = "system"
    /\ can_call(pc, t)
    /\ Call
    /\ IF rides_get(rides, ride_id) = {}
       THEN /\ last' = Outcome("assign_driver", t, ride_id, "", ACCEPTED, "", "ValueError",
                               "Ride not found", 0)
            /\ UNCHANGED pc
       ELSE /\ pc' = [pc EXCEPT ![t] = [at |-> "sleep",
                                        ride_id |-> found(rides, ride_id).ride_id,
                                        attached |-> TRUE,
                                        seen |-> found(rides, ride_id).status]]
            /\ UNCHANGED last
    /\ UNCHANGED <<impl, rides>>

\* assign_driver after time.sleep: the writes and the return
sys_assign_driver_write(t, eta) ==
    /\ impl = "system"
    /\ pc[t].at = "sleep"
    /\ eta \in EtaMin..EtaMax
    /\ LET ride_id == pc[t].ride_id
           driver == generate_random(now, t)
       IN /\ IF pc[t].attached
             THEN rides' = [rides EXCEPT ![ride_id] = assign_driver(@, driver, now, eta)]
             ELSE UNCHANGED rides
          /\ last' = [Outcome("assign_driver", t, ride_id, "", ACCEPTED,
                              IF pc[t].attached THEN rides[ride_id].status ELSE "",
                              "none", "", 0)
                        EXCEPT !.driver = {driver},
                               !.seen_status = pc[t].seen]
    /\ pc' = [pc EXCEPT ![t] = Idle]
    /\ UNCHANGED <<impl, now, calls>>

sys_track_ride(t, ride_id) ==
    /\ impl = "system"
    /\ can_call(pc, t)
    /\ Call
    /\ IF rides_get(rides, ride_id) = {}
       THEN last' = Outcome("track_ride", 0, ride_id, "", "", "", "ValueError",
                            "Ride not found", 0)
       ELSE last' = [Outcome("track_ride", 0, ride_id, "", "", found(rides, ride_id).status,
                             "none", "", 0)
                       EXCEPT !.ride = {found(rides, ride_id)}]
    /\ UNCHANGED <<impl, rides, pc>>

\* update_ride_status; _complete_ride raises after the writes when the ride
\* has no driver
sys_update_ride_status(t, ride_id, new_status) ==
    /\ impl = "system"
    /\ can_call(pc, t)
    /\ Call
    /\ IF rides_get(rides, ride_id) = {}
       THEN /\ last' = Outcome("update_ride_status", 0, ride_id, "", new_status, "",
                               "ValueError", "Ride not found", 0)
            /\ UNCHANGED rides
       ELSE LET ride == update_ride_status(found(rides, ride_id), new_status, now)
                raises == new_status = COMPLETED /\ complete_ride_raises(ride)
            IN /\ rides' = [rides EXCEPT ![ride.ride_id] = ride]
               /\ last' = Outcome("update_ride_status", 0, ride_id, "", new_status,
                                  found(rides, ride_id).status,
                                  IF raises THEN "AttributeError" ELSE "none",
                                  IF raises THEN "'NoneType' object has no attribute 'name'"
                                  ELSE "", 0)
    /\ UNCHANGED <<impl, pc>>

\* cancel_ride; the fee is printed, nothing is returned
sys_cancel_ride(t, ride_id, reason) ==
    /\ impl = "system"
    /\ can_call(pc, t)
    /\ Call
    /\ IF rides_get(rides, ride_id) = {}
       THEN /\ last' = Outcome("cancel_ride", 0, ride_id, reason, CANCELLED, "",
                               "ValueError", "Ride not found", 0)
            /\ UNCHANGED rides
       ELSE LET ride == cancel_ride(found(rides, ride_id))
            IN /\ rides' = [rides EXCEPT ![ride.ride_id] = ride]
               /\ last' = [Outcome("cancel_ride", 0, ride_id, reason, CANCELLED,
                                   found(rides, ride_id).status, "none", "", 0)
                             EXCEPT !.printed_fee = {cancellation_fee(ride)}]
    /\ UNCHANGED <<impl, pc>>

sys_get_ride_history(t) ==
    /\ impl = "system"
    /\ can_call(pc, t)
    /\ Call
    /\ last' = [Outcome("get_ride_history", 0, 0, "", "", "", "none", "", 0)
                  EXCEPT !.history = get_ride_history(rides)]
    /\ UNCHANGED <<impl, rides, pc>>

simulate_ride_skipping_arrival(at) ==
    CASE at = "sim_accepted" -> [status |-> IN_PROGRESS, at |-> "sim_in_progress"]
      [] at = "sim_arriving" -> [status |-> IN_PROGRESS, at |-> "sim_in_progress"]
      [] OTHER -> [status |-> COMPLETED, at |-> "idle"]

\* simulate_ride after assign_driver: the status the next update_ride_status
\* sets once the time.sleep before it is over, and where the run stands then
simulate_ride(at) ==
    CASE at = "sim_accepted" -> [status |-> ARRIVING, at |-> "sim_arriving"]
      [] at = "sim_arriving" -> [status |-> IN_PROGRESS, at |-> "sim_in_progress"]
      [] OTHER -> [status |-> COMPLETED, at |-> "idle"]

\* simulate_ride up to the time.sleep of assign_driver: its own lookup and
\* assign_driver's
sys_simulate_ride_lookup(t, ride_id) ==
    /\ impl = "system"
    /\ can_call(pc, t)
    /\ Call
    /\ IF rides_get(rides, ride_id) = {}
       THEN /\ last' = Outcome("simulate_ride", t, ride_id, "", COMPLETED, "", "ValueError",
                               "Ride not found", 0)
            /\ UNCHANGED pc
       ELSE /\ pc' = [pc EXCEPT ![t] = [at |-> "sim_search",
                                        ride_id |-> found(rides, ride_id).ride_id,
                                        attached |-> TRUE,
                                        seen |-> found(rides, ride_id).status]]
            /\ UNCHANGED last
    /\ UNCHANGED <<impl, rides>>

\* simulate_ride: assign_driver's writes, then time.sleep(2)
sys_simulate_ride_assign(t, eta) ==
    /\ impl = "system"
    /\ pc[t].at = "sim_search"
    /\ eta \in EtaMin..EtaMax
    /\ LET ride_id == pc[t].ride_id
           driver == generate_random(now, t)
       IN IF pc[t].attached
          THEN rides' = [rides EXCEPT ![ride_id] = assign_driver(@, driver, now, eta)]
          ELSE UNCHANGED rides
    /\ pc' = [pc EXCEPT ![t].at = "sim_accepted"]
    /\ UNCHANGED <<impl, now, calls, last>>

\* simulate_ride: the next update_ride_status, and the time.sleep after it or
\* the return
sys_simulate_ride_update(t) ==
    /\ impl = "system"
    /\ pc[t].at \in {"sim_accepted", "sim_arriving", "sim_in_progress"}
    /\ Advance
    /\ LET ride_id == pc[t].ride_id
           step == simulate_ride(pc[t].at)
           ride == update_ride_status(found(rides, ride_id), step.status, now)
           raises == step.status = COMPLETED /\ complete_ride_raises(ride)
       IN /\ rides' = [rides EXCEPT ![ride_id] = ride]
          /\ IF step.at = "idle"
             THEN /\ pc' = [pc EXCEPT ![t] = Idle]
                  /\ last' = Outcome("simulate_ride", t, ride_id, "", COMPLETED,
                                     pc[t].seen,
                                     IF raises THEN "AttributeError" ELSE "none",
                                     IF raises
                                     THEN "'NoneType' object has no attribute 'name'"
                                     ELSE "", 0)
             ELSE /\ pc' = [pc EXCEPT ![t].at = step.at]
                  /\ UNCHANGED last
    /\ UNCHANGED <<impl, calls>>

-----------------------------------------------------------------------------
(* The calls the model makes *)

LocMGRoad == [latitude |-> 129716, longitude |-> 775946, address |-> "MG Road, Bangalore"]
LocKoramangala ==
    [latitude |-> 129352, longitude |-> 776245, address |-> "Koramangala, Bangalore"]

CabNames == {"sedan", "BIKE"}
SysCabTypes == {"SEDAN"}
StatusNames == {"SEARCHING", "ACCEPTED", "ARRIVING", "IN_PROGRESS", "COMPLETED",
                "CANCELLED", "arriving", "DONE"}
Reasons == {"User cancelled", "Driver late"}
\* the hour of day of the bookings, and the lowest surge drawn at that hour
Hours == {14}
LowestSurge(hour) ==
    CHOOSE s \in get_surge_multiplier(hour) : \A x \in get_surge_multiplier(hour) : s <= x
\* the ends of the range random.randint(3, 10) draws from
EtaDraws == {EtaMin, EtaMax}

\* The handlers of the API, and CabBookingSystem driven by one thread, as
\* app.py's main() drives it
MainThread == 1

Next ==
    \/ \E cab \in CabNames, hour \in Hours :
          route_get_fare_estimate(cab, LocMGRoad, LocKoramangala, hour, LowestSurge(hour))
    \/ \E cab \in SysCabTypes, hour \in Hours :
          sys_get_fare_estimate(MainThread, LocMGRoad, LocKoramangala, cab, hour,
                                LowestSurge(hour))
    \/ \E id \in RideIds, cab \in CabNames, hour \in Hours :
          route_book_ride(cab, LocMGRoad, LocKoramangala, id, hour, LowestSurge(hour))
    \/ \E id \in RideIds : route_get_ride(id)
    \/ \E id \in RideIds, eta \in EtaDraws : route_assign_driver(id, eta)
    \/ \E id \in RideIds, name \in StatusNames : route_update_ride_status(id, name)
    \/ \E id \in RideIds, reason \in Reasons : route_cancel_ride(id, reason)
    \/ route_get_ride_history
    \/ \E id \in RideIds, cab \in SysCabTypes, hour \in Hours :
          sys_book_ride(MainThread, LocMGRoad, LocKoramangala, cab, id, hour,
                        LowestSurge(hour))
    \/ \E id \in RideIds : sys_assign_driver_lookup(MainThread, id)
    \/ \E eta \in EtaDraws : sys_assign_driver_write(MainThread, eta)
    \/ \E id \in RideIds : sys_track_ride(MainThread, id)
    \/ \E id \in RideIds, st \in RideStatus : sys_update_ride_status(MainThread, id, st)
    \/ \E id \in RideIds, reason \in Reasons : sys_cancel_ride(MainThread, id, reason)
    \/ sys_get_ride_history(MainThread)

Spec == Init /\ [][Next]_vars

\* book_ride and track_ride return the Ride object that is stored in the
\* dict, and Ride is a dataclass with assignable fields: the caller that
\* holds the ride the last call returned assigns to its status
caller_sets_status(t, new_status) ==
    /\ impl = "system"
    /\ can_call(pc, t)
    /\ last.op \in {"book_ride", "track_ride"}
    /\ last.error = "none"
    /\ last.ride_id \in DOMAIN rides
    /\ rides' = [rides EXCEPT ![last.ride_id].status = new_status]
    /\ UNCHANGED <<impl, now, pc, last, calls>>

NextCaller ==
    \/ Next
    \/ \E st \in RideStatus : caller_sets_status(MainThread, st)

SpecCaller == Init /\ [][NextCaller]_vars

\* The fare engine alone: quotes over every cab class, the trips between
\* three points and every surge the two kinds of hour can draw
LocHebbal == [latitude |-> 130358, longitude |-> 775970, address |-> "Hebbal, Bangalore"]
FarePoints == {LocMGRoad, LocKoramangala, LocHebbal}
FareCabNames == {"mini", "SEDAN", "SUV", "LUXURY", "BIKE"}
FareHours == {9, 14}

NextFare ==
    \/ \E cab \in FareCabNames, pickup \in FarePoints, dropoff \in FarePoints,
          hour \in FareHours :
          \E surge \in get_surge_multiplier(hour) :
             route_get_fare_estimate(cab, pickup, dropoff, hour, surge)
    \/ \E cab \in DOMAIN CabType, pickup \in FarePoints, dropoff \in FarePoints,
          hour \in FareHours :
          \E surge \in get_surge_multiplier(hour) :
             sys_get_fare_estimate(MainThread, pickup, dropoff, cab, hour, surge)

SpecFare == Init /\ [][NextFare]_vars

\* fare estimates of one trip at every hour of the day, with every surge the
\* hour can draw
HoursOfDay == 0..23

NextSurge ==
    \/ \E hour \in HoursOfDay :
          \E surge \in get_surge_multiplier(hour) :
             route_get_fare_estimate("sedan", LocMGRoad, LocKoramangala, hour, surge)
    \/ \E hour \in HoursOfDay :
          \E surge \in get_surge_multiplier(hour) :
             sys_get_fare_estimate(MainThread, LocMGRoad, LocKoramangala, "SEDAN", hour, surge)

SpecSurge == Init /\ [][NextSurge]_vars

\* CabBookingSystem called from several threads at once
InitConcurrent == Init /\ impl = "system"

NextConcurrent ==
    \/ \E t \in Threads, id \in RideIds, cab \in SysCabTypes, hour \in Hours :
          sys_book_ride(t, LocMGRoad, LocKoramangala, cab, id, hour, LowestSurge(hour))
    \/ \E t \in Threads, id \in RideIds : sys_assign_driver_lookup(t, id)
    \/ \E t \in Threads, eta \in EtaDraws : sys_assign_driver_write(t, eta)
    \/ \E t \in Threads, id \in RideIds, st \in RideStatus : sys_update_ride_status(t, id, st)
    \/ \E t \in Threads, id \in RideIds, reason \in Reasons : sys_cancel_ride(t, id, reason)

SpecConcurrent == InitConcurrent /\ [][NextConcurrent]_vars

\* CabBookingSystem called from several threads at once, each thread booking
\* and driving a ride of its own: every two calls in flight are on distinct
\* ride identifiers
OwnRide(t) == t

NextDistinct ==
    \/ \E t \in Threads \cap RideIds, cab \in SysCabTypes, hour \in Hours :
          sys_book_ride(t, LocMGRoad, LocKoramangala, cab, OwnRide(t), hour,
                        LowestSurge(hour))
    \/ \E t \in Threads \cap RideIds : sys_assign_driver_lookup(t, OwnRide(t))
    \/ \E t \in Threads \cap RideIds, eta \in EtaDraws : sys_assign_driver_write(t, eta)
    \/ \E t \in Threads \cap RideIds, st \in RideStatus :
          sys_update_ride_status(t, OwnRide(t), st)
    \/ \E t \in Threads \cap RideIds, reason \in Reasons :
          sys_cancel_ride(t, OwnRide(t), reason)

SpecDistinct == InitConcurrent /\ [][NextDistinct]_vars

\* One ride booked at a peak or an off-peak hour, under the lowest or the
\* highest surge of that hour, and then driven through any calls
SurgeEnds(hour) ==
    {s \in get_surge_multiplier(hour) :
        \/ \A x \in get_surge_multiplier(hour) : s <= x
        \/ \A x \in get_surge_multiplier(hour) : s >= x}
BookedCabNames == {"SEDAN", "LUXURY"}
BookedStatusNames == {"ARRIVING", "IN_PROGRESS", "COMPLETED", "SEARCHING"}

NextBooked ==
    \/ \E cab \in BookedCabNames, hour \in FareHours :
          \E surge \in SurgeEnds(hour) :
             route_book_ride(cab, LocMGRoad, LocKoramangala, OwnRide(MainThread), hour, surge)
    \/ \E cab \in BookedCabNames, hour \in Hours :
          route_get_fare_estimate(cab, LocHebbal, LocMGRoad, hour, LowestSurge(hour))
    \/ \E eta \in EtaDraws : route_assign_driver(OwnRide(MainThread), eta)
    \/ \E name \in BookedStatusNames :
          route_update_ride_status(OwnRide(MainThread), name)
    \/ \E reason \in Reasons : route_cancel_ride(OwnRide(MainThread), reason)
    \/ \E cab \in BookedCabNames, hour \in FareHours :
          \E surge \in SurgeEnds(hour) :
             sys_book_ride(MainThread, LocMGRoad, LocKoramangala, cab, OwnRide(MainThread),
                           hour, surge)
    \/ \E cab \in BookedCabNames, hour \in Hours :
          sys_get_fare_estimate(MainThread, LocHebbal, LocMGRoad, cab, hour,
                                LowestSurge(hour))
    \/ sys_assign_driver_lookup(MainThread, OwnRide(MainThread))
    \/ \E eta \in EtaDraws : sys_assign_driver_write(MainThread, eta)
    \/ \E name \in BookedStatusNames :
          \E st \in RideStatusByName(name) :
             sys_update_ride_status(MainThread, OwnRide(MainThread), st)
    \/ \E reason \in Reasons : sys_cancel_ride(MainThread, OwnRide(MainThread), reason)

SpecBooked == Init /\ [][NextBooked]_vars

\* CabBookingSystem driven by one thread that books rides, runs
\* simulate_ride and reads the history; a simulate_ride that has begun goes
\* on when each time.sleep is over
NextSimulate ==
    \/ \E id \in RideIds, cab \in SysCabTypes, hour \in Hours :
          sys_book_ride(MainThread, LocMGRoad, LocKoramangala, cab, id, hour,
                        LowestSurge(hour))
    \/ \E id \in RideIds : sys_simulate_ride_lookup(MainThread, id)
    \/ \E eta \in EtaDraws : sys_simulate_ride_assign(MainThread, eta)
    \/ sys_simulate_ride_update(MainThread)
    \/ sys_get_ride_history(MainThread)

SpecSimulate ==
    /\ InitConcurrent
    /\ [][NextSimulate]_vars
    /\ WF_vars(\E eta \in EtaDraws : sys_simulate_ride_assign(MainThread, eta))
    /\ WF_vars(sys_simulate_ride_update(MainThread))

-----------------------------------------------------------------------------
(* The ride lifecycle the specification describes, and the steps of a run *)

\* the edges of the lifecycle graph
LegalEdge(from, to) ==
    <<from, to>> \in {<<SEARCHING, ACCEPTED>>, <<ACCEPTED, ARRIVING>>,
                      <<ARRIVING, IN_PROGRESS>>, <<IN_PROGRESS, COMPLETED>>,
                      <<SEARCHING, CANCELLED>>, <<ACCEPTED, CANCELLED>>,
                      <<ARRIVING, CANCELLED>>}

\* assignDriver, setStatus and cancelRide
LifecycleOps == {"assign_driver", "update_ride_status", "cancel_ride"}

\* get, assignDriver, setStatus and cancelRide
LookupOps == LifecycleOps \cup {"get_ride", "track_ride"}

\* this step puts a thread to sleep inside assign_driver
StartsSleep == \E t \in Threads : pc[t].at = "idle" /\ pc'[t].at = "sleep"

\* this step is the end of a call: last' is what that call returned or raised
Finishes ==
    \/ calls' = calls + 1 /\ ~StartsSleep
    \/ \E t \in Threads : pc[t].at = "sleep" /\ pc'[t].at = "idle"

\* the call that ends in this step went through the registry's lookup and its
\* ride was stored / was not stored when the call's writes began
OnStoredRide == Finishes /\ last'.error # "KeyError" /\ last'.ride_id \in DOMAIN rides
OnUnknownRide == Finishes /\ last'.error # "KeyError" /\ last'.ride_id \notin DOMAIN rides

\* the request string names one of the four cab classes
NamesCabClass(name) == upper(name) \in {"MINI", "SEDAN", "SUV", "LUXURY"}

\* the request string names one of the six ride statuses
NamesRideStatus(name) ==
    upper(name) \in {"SEARCHING", "ACCEPTED", "ARRIVING", "IN_PROGRESS", "COMPLETED",
                     "CANCELLED"}

\* the value a call hands back for a stored ride: the response schema over
\* HTTP, the Ride itself from CabBookingSystem
Returned(r) == IF impl = "service" THEN convert_ride_to_schema(r) ELSE r

\* the fee a cancel_ride reported: returned by the service, printed by the system
FeeOf(l) == {c.cancellation_fee : c \in l.cancel} \cup l.printed_fee

-----------------------------------------------------------------------------
(* Claims *)

\* C1: every change of a ride's status made by assignDriver, setStatus or
\* cancelRide is an edge of the lifecycle graph.
C1_StatusChangesFollowGraph ==
    [][(OnStoredRide /\ last'.op \in LifecycleOps) =>
         \A id \in DOMAIN rides :
            rides'[id].status # rides[id].status =>
               LegalEdge(rides[id].status, rides'[id].status)]_vars

\* C2: an assignDriver, setStatus or cancelRide on a stored ride whose status
\* does not permit the transition fails with InvalidState and leaves the ride
\* exactly as it was.
C2_IllegalTransitionRejected ==
    [][(OnStoredRide /\ last'.op \in LifecycleOps
          /\ ~LegalEdge(rides[last'.ride_id].status, last'.target)) =>
         /\ last'.error = "InvalidState"
         /\ rides'[last'.ride_id] = rides[last'.ride_id]]_vars

\* C3: once a ride is COMPLETED or CANCELLED no assignDriver, setStatus or
\* cancelRide changes its status.
C3_TerminalStatusesStay ==
    [][(OnStoredRide /\ last'.op \in LifecycleOps) =>
         \A id \in DOMAIN rides :
            rides[id].status \in {COMPLETED, CANCELLED} =>
               rides'[id].status = rides[id].status]_vars

\* C4: an assignDriver that directly follows a successful assignDriver on the
\* same ride fails with InvalidState and replaces neither the driver, nor
\* accepted_at, nor the eta of the first.
C4_SecondAssignRejected ==
    [][(OnStoredRide /\ last'.op = "assign_driver"
          /\ last.op = "assign_driver" /\ last.error = "none"
          /\ last.pre_status = SEARCHING
          /\ last.ride_id = last'.ride_id
          /\ rides[last'.ride_id].driver = last.driver) =>
         /\ last'.error = "InvalidState"
         /\ rides'[last'.ride_id].driver = rides[last'.ride_id].driver
         /\ rides'[last'.ride_id].accepted_at = rides[last'.ride_id].accepted_at
         /\ rides'[last'.ride_id].eta_minutes = rides[last'.ride_id].eta_minutes]_vars

\* C5: a cancelRide of a SEARCHING, ACCEPTED or ARRIVING ride reports the fee
\* its status before the cancel decides: 50 from ACCEPTED or ARRIVING, 0 from
\* SEARCHING; the record the service returns carries the ride id, the status
\* cancelled and the reason given.
C5_FeeFromPriorStatus ==
    [][(OnStoredRide /\ last'.op = "cancel_ride"
          /\ rides[last'.ride_id].status \in {SEARCHING, ACCEPTED, ARRIVING}) =>
         /\ last'.error = "none"
         /\ FeeOf(last') =
              {IF rides[last'.ride_id].status \in {ACCEPTED, ARRIVING} THEN 50 ELSE 0}
         /\ impl = "service" =>
              \A c \in last'.cancel :
                 /\ c.ride_id = last'.ride_id
                 /\ c.status = "cancelled"
                 /\ c.reason = last'.arg]_vars

\* C6: of two assignDriver calls in flight at once on the same SEARCHING
\* ride, the one whose writes come second fails with InvalidState and the
\* ride keeps what the first wrote.
C6_OneConcurrentAssignWins ==
    [][\A t \in Threads :
         (/\ pc[t].at = "sleep" /\ pc'[t].at = "idle"
          /\ pc[t].attached /\ pc[t].seen = SEARCHING
          /\ last.op = "assign_driver" /\ last.error = "none"
          /\ last.ride_id = pc[t].ride_id
          /\ last.seen_status = SEARCHING /\ last.pre_status = SEARCHING
          /\ rides[pc[t].ride_id].driver = last.driver) =>
            /\ last'.error = "InvalidState"
            /\ rides'[pc[t].ride_id] = rides[pc[t].ride_id]]_vars

\* C7: the completed rides listed are exactly the rides stored in the
\* registry whose status is COMPLETED, in every state of the registry and in
\* what a history call returned.
C7_HistoryIffCompleted ==
    /\ \A id \in DOMAIN rides :
          rides[id] \in get_ride_history(rides) <=> rides[id].status = COMPLETED
    /\ \A r \in get_ride_history(rides) : \E id \in DOMAIN rides : rides[id] = r
    /\ last.op = "get_ride_history" =>
          /\ \A id \in DOMAIN rides :
                (\E h \in last.history : h.ride_id = id) <=> rides[id].status = COMPLETED
          /\ \A h \in last.history :
                /\ h.ride_id \in DOMAIN rides
                /\ h.status = COMPLETED
                /\ h.completed_at = rides[h.ride_id].completed_at

\* a history call has returned a completed ride and left out a stored ride
\* that is not completed
C7_Witness ==
    /\ last.op = "get_ride_history"
    /\ last.history # {}
    /\ \E id \in DOMAIN rides : rides[id].status # COMPLETED

\* C8: get, assignDriver, setStatus and cancelRide on an identifier that is
\* not in the registry fail with "Ride not found" (404 over HTTP), create no
\* entry and change no stored ride.
C8_UnknownRideNotFound ==
    [][(OnUnknownRide /\ last'.op \in LookupOps) =>
         /\ last'.error = "ValueError"
         /\ last'.detail = "Ride not found"
         /\ impl = "service" => last'.http = 404
         /\ rides' = rides]_vars

\* a lookup of an unknown identifier has failed while another ride is stored
C8_Witness ==
    /\ last.op \in LookupOps
    /\ last.error = "ValueError"
    /\ last.ride_id \notin DOMAIN rides
    /\ DOMAIN rides # {}

\* C9: a ride that is ACCEPTED, ARRIVING, IN_PROGRESS or COMPLETED has a
\* driver, a SEARCHING ride has none, and a CANCELLED ride has one exactly
\* when a driver had been assigned to it.
C9_DriverIffAccepted ==
    \A id \in DOMAIN rides :
       /\ rides[id].status \in {ACCEPTED, ARRIVING, IN_PROGRESS, COMPLETED} =>
             rides[id].driver # {}
       /\ rides[id].status = SEARCHING => rides[id].driver = {}
       /\ rides[id].status = CANCELLED =>
             (rides[id].driver # {} <=> rides[id].accepted_at # {})

\* C10: once accepted_at, started_at or completed_at of a ride is set, no
\* assignDriver, setStatus or cancelRide changes or clears it.
C10_TimestampsSetOnce ==
    [][(OnStoredRide /\ last'.op \in LifecycleOps) =>
         \A id \in DOMAIN rides :
            /\ rides[id].accepted_at # {} => rides'[id].accepted_at = rides[id].accepted_at
            /\ rides[id].started_at # {} => rides'[id].started_at = rides[id].started_at
            /\ rides[id].completed_at # {} =>
                  rides'[id].completed_at = rides[id].completed_at]_vars

\* C11: in every ride the timestamps that are present are ordered
\* created_at <= accepted_at <= started_at <= completed_at, and a later
\* timestamp is never present while an earlier one is absent.
C11_TimestampsOrdered ==
    \A id \in DOMAIN rides :
       LET r == rides[id]
       IN /\ \A a \in r.accepted_at : r.created_at <= a
          /\ \A a \in r.accepted_at, b \in r.started_at : a <= b
          /\ \A b \in r.started_at, c \in r.completed_at : b <= c
          /\ \A a \in r.accepted_at, c \in r.completed_at : a <= c
          /\ r.started_at # {} => r.accepted_at # {}
          /\ r.completed_at # {} => r.started_at # {}

\* C12: bookRide with a valid cab class succeeds, and the ride it returns is
\* stored under its own ride_id with status SEARCHING, a fare, no driver,
\* eta 0 and no accepted/started/completed timestamp; a get of that ride_id
\* that follows returns that ride.
C12_BookStoresSearchingRide ==
    [][/\ (Finishes /\ last'.op = "book_ride" /\ NamesCabClass(last'.arg)) =>
            /\ last'.error = "none"
            /\ last'.ride_id \in DOMAIN rides'
            /\ rides'[last'.ride_id].ride_id = last'.ride_id
            /\ rides'[last'.ride_id].status = SEARCHING
            /\ rides'[last'.ride_id].fare # {}
            /\ rides'[last'.ride_id].driver = {}
            /\ rides'[last'.ride_id].eta_minutes = 0
            /\ rides'[last'.ride_id].accepted_at = {}
            /\ rides'[last'.ride_id].started_at = {}
            /\ rides'[last'.ride_id].completed_at = {}
            /\ last'.ride = {Returned(rides'[last'.ride_id])}
       /\ (Finishes /\ last'.op \in {"get_ride", "track_ride"}
             /\ last.op = "book_ride" /\ last.error = "none"
             /\ last'.ride_id = last.ride_id) =>
            /\ last'.error = "none"
            /\ last'.ride = last.ride]_vars

\* a get has returned, still SEARCHING, the ride booked by the call before
\* it, which was not the first call of the run
C12_Witness ==
    /\ last.op \in {"get_ride", "track_ride"}
    /\ last.error = "none"
    /\ \E r \in last.ride :
          /\ r.ride_id = last.ride_id
          /\ r.status = SEARCHING
          /\ r.created_at = now - 2
          /\ r.created_at > 0

\* C13: assignDriver on a stored SEARCHING ride succeeds and leaves the ride
\* ACCEPTED with a driver, accepted_at set and an eta in 3..10; the ride the
\* assign-driver endpoint returns carries that driver.
C13_AssignAcceptsSearchingRide ==
    [][(OnStoredRide /\ last'.op = "assign_driver"
          /\ rides[last'.ride_id].status = SEARCHING) =>
         /\ last'.error = "none"
         /\ rides'[last'.ride_id].status = ACCEPTED
         /\ rides'[last'.ride_id].driver # {}
         /\ rides'[last'.ride_id].driver = last'.driver
         /\ rides'[last'.ride_id].accepted_at # {}
         /\ rides'[last'.ride_id].eta_minutes \in 3..10
         /\ impl = "service" =>
              /\ last'.http = 200
              /\ \E r \in last'.ride :
                    /\ r.ride_id = last'.ride_id
                    /\ r.status = ACCEPTED
                    /\ r.driver # {}
                    /\ r.driver = {convert_driver_to_schema(d) :
                                      d \in rides'[last'.ride_id].driver}
                    /\ r.eta_minutes = rides'[last'.ride_id].eta_minutes]_vars

\* an assignDriver on a SEARCHING ride has returned and the ride is ACCEPTED
\* with the driver that call generated
C13_Witness ==
    /\ last.op = "assign_driver"
    /\ last.error = "none"
    /\ last.pre_status = SEARCHING
    /\ last.ride_id \in DOMAIN rides
    /\ rides[last.ride_id].status = ACCEPTED
    /\ rides[last.ride_id].driver = last.driver
    /\ last.driver # {}

C15_FareIsClosedForm ==
    last.op = "get_fare_estimate" /\ last.error = "none" =>
       /\ last.fare # {}
       /\ \A q \in last.request, f \in last.fare :
             LET distance == distance_to(q.pickup, q.dropoff)
                 minutes == (distance * 60) \div 30
                 class == CabType[q.cab_type]
             IN /\ f.base_fare = class.base_fare * 10000
                /\ f.distance_fare = distance * class.per_km * 10
                /\ f.time_fare = minutes * class.per_min
                /\ f.total = RoundDiv((f.base_fare + f.distance_fare + f.time_fare)
                                         * f.surge_multiplier, 1000)

\* a quote has been returned for a trip of some length under a surge above
\* 1.0, and rounding to two decimals changed the product
C15_Witness ==
    /\ last.op = "get_fare_estimate"
    /\ last.error = "none"
    /\ \E f \in last.fare :
          /\ f.surge_multiplier > 10
          /\ f.distance_fare > 0
          /\ ((f.base_fare + f.distance_fare + f.time_fare) * f.surge_multiplier) % 1000 # 0

\* C16: operations on one ride identifier are serialized: between the lookup
\* of an assignDriver and its writes, no assignDriver, setStatus or
\* cancelRide of another caller changes the ride that was looked up.
C16_RideMutationsSerialized ==
    [][\A t \in Threads :
         (/\ pc[t].at = "sleep" /\ pc[t].attached /\ pc'[t].at = "sleep"
          /\ Finishes /\ last'.op \in LifecycleOps) =>
            rides'[pc[t].ride_id] = rides[pc[t].ride_id]]_vars

\* C17: with calls in flight on distinct ride identifiers, an assignDriver,
\* setStatus or cancelRide on ride A leaves every other stored ride as it
\* was, and its outcome is the one A's own state decides: the ride takes the
\* target status, with the writes of that operation and no others, and the
\* call fails only where it fails when run alone (COMPLETED without a driver).
C17_DistinctRidesIndependent ==
    [][(OnStoredRide /\ last'.op \in LifecycleOps) =>
         /\ DOMAIN rides' = DOMAIN rides
         /\ \A B \in DOMAIN rides \ {last'.ride_id} : rides'[B] = rides[B]
         /\ rides'[last'.ride_id].status = last'.target
         /\ last'.error =
               IF /\ last'.op = "update_ride_status"
                  /\ last'.target = COMPLETED
                  /\ rides[last'.ride_id].driver = {}
               THEN "AttributeError" ELSE "none"
         /\ last'.op = "assign_driver" =>
               rides'[last'.ride_id] =
                  [rides[last'.ride_id] EXCEPT !.status = ACCEPTED,
                                               !.driver = last'.driver,
                                               !.accepted_at = {now},
                                               !.eta_minutes = rides'[last'.ride_id].eta_minutes]
         /\ last'.op = "update_ride_status" =>
               rides'[last'.ride_id] =
                  [rides[last'.ride_id] EXCEPT
                      !.status = last'.target,
                      !.started_at = IF last'.target = IN_PROGRESS THEN {now} ELSE @,
                      !.completed_at = IF last'.target = COMPLETED THEN {now} ELSE @]
         /\ last'.op = "cancel_ride" =>
               rides'[last'.ride_id] = [rides[last'.ride_id] EXCEPT !.status = CANCELLED]]_vars

\* a call on one ride has returned while an assignDriver on another stored
\* ride is between its lookup and its writes
C17_Witness ==
    /\ last.op \in LifecycleOps
    /\ last.error = "none"
    /\ last.ride_id \in DOMAIN rides
    /\ \E t \in Threads :
          /\ pc[t].at = "sleep"
          /\ pc[t].ride_id \in DOMAIN rides
          /\ pc[t].ride_id # last.ride_id
          /\ rides[pc[t].ride_id].status = pc[t].seen

\* C18: whenever a call raises, every stored ride (status, timestamps,
\* driver, fare) is exactly as it was before the call, in both
\* implementations and for every ride state.
C18_FailedCallChangesNothing ==
    [][(Finishes /\ last'.error # "none") => rides' = rides]_vars

\* C19: what bookRide, get, setStatus and listCompleted hand to a caller is a
\* copy or a read-only view: a stored ride changes only in a step of one of
\* the registry's own operations, never by what a caller does with the value
\* it received.
C19_OnlyRegistryChangesRides ==
    [][rides' # rides => Finishes]_vars

\* C20: a fare-estimate or book request whose cab type names no cab class,
\* and a status update whose status names no ride status, is answered with
\* HTTP 400 without the core being called: nothing is returned, no ride is
\* created and no stored ride changes.
C20_UnresolvedNameRejected ==
    [][(/\ Finishes
        /\ impl = "service"
        /\ \/ last'.op \in {"get_fare_estimate", "book_ride"} /\ ~NamesCabClass(last'.arg)
           \/ last'.op = "update_ride_status" /\ ~NamesRideStatus(last'.arg)) =>
         /\ last'.http = 400
         /\ last'.error # "none"
         /\ last'.ride = {}
         /\ last'.fare = {}
         /\ rides' = rides]_vars

\* a book request with an unknown cab type has been answered 400 while a
\* ride is stored
C20_Witness ==
    /\ impl = "service"
    /\ last.op = "book_ride"
    /\ ~NamesCabClass(last.arg)
    /\ last.http = 400
    /\ DOMAIN rides # {}

\* C21: a successful setStatus changes only the fields its target names:
\* ARRIVING the status alone, IN_PROGRESS the status and started_at,
\* COMPLETED the status and completed_at; driver, fare, eta_minutes,
\* accepted_at, distance and duration stay as they were.
C21_SetStatusWritesOnlyItsFields ==
    [][(OnStoredRide /\ last'.op = "update_ride_status" /\ last'.error = "none"
          /\ last'.target \in {ARRIVING, IN_PROGRESS, COMPLETED}) =>
         LET before == rides[last'.ride_id]
             after == rides'[last'.ride_id]
         IN /\ after.status = last'.target
            /\ after.driver = before.driver
            /\ after.fare = before.fare
            /\ after.eta_minutes = before.eta_minutes
            /\ after.accepted_at = before.accepted_at
            /\ after.distance_km = before.distance_km
            /\ after.duration_minutes = before.duration_minutes
            /\ last'.target = ARRIVING =>
                  after = [before EXCEPT !.status = ARRIVING]
            /\ last'.target = IN_PROGRESS =>
                  /\ after.started_at # {}
                  /\ after = [before EXCEPT !.status = IN_PROGRESS,
                                            !.started_at = after.started_at]
            /\ last'.target = COMPLETED =>
                  /\ after.completed_at # {}
                  /\ after = [before EXCEPT !.status = COMPLETED,
                                            !.completed_at = after.completed_at]]_vars

\* a setStatus to ARRIVING has returned for a ride that has a driver and an
\* acceptance time, and has no start time
C21_Witness ==
    /\ last.op = "update_ride_status"
    /\ last.error = "none"
    /\ last.target = ARRIVING
    /\ last.pre_status = ACCEPTED
    /\ last.ride_id \in DOMAIN rides
    /\ rides[last.ride_id].status = ARRIVING
    /\ rides[last.ride_id].driver # {}
    /\ rides[last.ride_id].accepted_at # {}
    /\ rides[last.ride_id].started_at = {}

\* C22: the fare embedded in a ride at booking is never recomputed or
\* modified by a later assignDriver, setStatus, cancelRide or quoteFare, and
\* in every state each stored fare has
\* total = round((base + distance_fare + time_fare) * surge_multiplier, 2)
\* with surge_multiplier >= 1.0.
C22_BookedFareNeverChanges ==
    /\ [](\A id \in DOMAIN rides :
            /\ rides[id].fare # {}
            /\ \A f \in rides[id].fare :
                  /\ f.surge_multiplier >= 10
                  /\ f.total = RoundDiv((f.base_fare + f.distance_fare + f.time_fare)
                                           * f.surge_multiplier, 1000))
    /\ [][(Finishes /\ last'.op \in LifecycleOps \cup {"get_fare_estimate"}) =>
            \A id \in DOMAIN rides :
               id \in DOMAIN rides' /\ rides'[id].fare = rides[id].fare]_vars

\* a ride booked under a surge above 1.0, whose total rounding changed, has
\* been assigned a driver and completed, and a fare has been quoted since
C22_Witness ==
    /\ last.op = "get_fare_estimate"
    /\ last.error = "none"
    /\ \E id \in DOMAIN rides :
          /\ rides[id].status = COMPLETED
          /\ rides[id].driver # {}
          /\ \E f \in rides[id].fare :
                /\ f.surge_multiplier > 10
                /\ f.distance_fare > 0
                /\ ((f.base_fare + f.distance_fare + f.time_fare) * f.surge_multiplier)
                      % 1000 # 0

\* C23: ride_id, cab class, pickup, dropoff, created_at, distance_km and
\* duration_minutes of a ride are fixed at booking: no assignDriver,
\* setStatus or cancelRide, on that ride or on another, changes them.
C23_BookingFieldsFixed ==
    [][(Finishes /\ last'.op \in LifecycleOps) =>
         \A id \in DOMAIN rides :
            /\ id \in DOMAIN rides'
            /\ rides'[id].ride_id = rides[id].ride_id
            /\ rides'[id].cab_type = rides[id].cab_type
            /\ rides'[id].pickup = rides[id].pickup
            /\ rides'[id].dropoff = rides[id].dropoff
            /\ rides'[id].created_at = rides[id].created_at
            /\ rides'[id].distance_km = rides[id].distance_km
            /\ rides'[id].duration_minutes = rides[id].duration_minutes]_vars

\* a ride that was assigned a driver has been cancelled while another ride
\* is stored, and it still carries the trip it was booked with
C23_Witness ==
    /\ last.op = "cancel_ride"
    /\ last.error = "none"
    /\ last.ride_id \in DOMAIN rides
    /\ rides[last.ride_id].driver # {}
    /\ rides[last.ride_id].status = CANCELLED
    /\ rides[last.ride_id].distance_km > 0
    /\ rides[last.ride_id].created_at < now - 2
    /\ \E id \in DOMAIN rides : id # last.ride_id

\* C24: every bookRide stores the new ride under an identifier that is not
\* yet a key of the registry: afterwards the registry holds exactly one more
\* ride and every ride stored before is still there, unchanged.
C24_BookingNeverReplaces ==
    [][(Finishes /\ last'.op = "book_ride" /\ last'.error = "none") =>
         /\ last'.ride_id \notin DOMAIN rides
         /\ Cardinality(DOMAIN rides') = Cardinality(DOMAIN rides) + 1
         /\ \A id \in DOMAIN rides : id \in DOMAIN rides' /\ rides'[id] = rides[id]]_vars

\* C25: the search delay inside assignDriver blocks no other ride: while an
\* assignDriver on ride A is asleep between its lookup and its writes, every
\* bookRide, assignDriver, setStatus and cancelRide of another thread on a
\* different ride B can be called, and an assignDriver begun on B can finish.
C25_SleepBlocksNoOtherRide ==
    \A t \in Threads, u \in Threads :
       (u # t /\ pc[t].at = "sleep" /\ calls < MaxCalls) =>
          /\ pc[u].at = "idle" =>
                \A B \in RideIds \ {pc[t].ride_id} :
                   /\ ENABLED sys_book_ride(u, LocMGRoad, LocMGRoad, "SEDAN", B,
                                            14, LowestSurge(14))
                   /\ ENABLED sys_assign_driver_lookup(u, B)
                   /\ \A st \in RideStatus : ENABLED sys_update_ride_status(u, B, st)
                   /\ ENABLED sys_cancel_ride(u, B, "User cancelled")
          /\ (pc[u].at = "sleep" /\ pc[u].ride_id # pc[t].ride_id) =>
                ENABLED sys_assign_driver_write(u, EtaMin)

\* while one thread is asleep in assignDriver on a ride, another thread's
\* assignDriver on a different ride has just written its driver
C25_Witness ==
    /\ last.op = "assign_driver"
    /\ last.error = "none"
    /\ last.ride_id \in DOMAIN rides
    /\ rides[last.ride_id].accepted_at = {now}
    /\ rides[last.ride_id].driver = last.driver
    /\ \E t \in Threads :
          /\ pc[t].at = "sleep"
          /\ pc[t].attached
          /\ pc[t].ride_id # last.ride_id

\* C26: the surge multiplier drawn at hour of day h is from 1.2 to 2.0 when
\* 8 <= h <= 10 or 17 <= h <= 20, and from 1.0 to 1.3 at every other hour; it
\* is never below 1.0 nor above 2.0 (in tenths: 12..20, 10..13, 10..20).
C26_SurgeRangeByHour ==
    (last.op = "get_fare_estimate" /\ last.error = "none") =>
       \A h \in last.hour, f \in last.fare :
          /\ ((8 <= h /\ h <= 10) \/ (17 <= h /\ h <= 20)) =>
                (12 <= f.surge_multiplier /\ f.surge_multiplier <= 20)
          /\ ~((8 <= h /\ h <= 10) \/ (17 <= h /\ h <= 20)) =>
                (10 <= f.surge_multiplier /\ f.surge_multiplier <= 13)
          /\ 10 <= f.surge_multiplier
          /\ f.surge_multiplier <= 20

\* an estimate at 8 o'clock, the first peak hour, drew the lowest peak surge
C26_Witness ==
    /\ last.op = "get_fare_estimate"
    /\ last.error = "none"
    /\ last.hour = {8}
    /\ \E f \in last.fare : f.surge_multiplier = 12

\* the estimate of test_fare_estimate's trip: MG Road to Koramangala by
\* Sedan, under surge 1.0
ExampleEstimate ==
    /\ last.op = "get_fare_estimate"
    /\ last.error = "none"
    /\ \E q \in last.request :
          /\ q.pickup.latitude = 129716 /\ q.pickup.longitude = 775946
          /\ q.dropoff.latitude = 129352 /\ q.dropoff.longitude = 776245
          /\ q.cab_type = "SEDAN"
    /\ \E f \in last.fare : f.surge_multiplier = 10

\* distance in 1/100 km and duration in 1/100 minute, as the fare's parts at
\* 15 per km and 2.5 per minute imply them; parts and total in tenths of a
\* rupee
ExampleDistance(f) == RoundDiv(f.distance_fare \div 150, 10)
ExampleDuration(f) == RoundDiv(f.time_fare \div 25, 10)
ExampleTenths(x) == RoundDiv(x, 1000)

\* C27 as stated: for pickup (12.9716, 77.5946), dropoff (12.9352, 77.6245),
\* Sedan and surge 1.0 the distance is 4.36, the duration 8.71 and the total
\* 80 + 65.4 + 21.8 = 167.2.
C27_ExampleAsStated ==
    ExampleEstimate =>
       \A f \in last.fare :
          /\ ExampleDistance(f) = 436
          /\ ExampleDuration(f) = 871
          /\ ExampleTenths(f.base_fare) = 800
          /\ ExampleTenths(f.distance_fare) = 654
          /\ ExampleTenths(f.time_fare) = 218
          /\ RoundDiv(f.total, 10) = 1672

\* C27: for pickup (12.9716, 77.5946), dropoff (12.9352, 77.6245), Sedan and
\* surge 1.0, sqrt(dlat^2 + dlng^2) * 111 gives distance 5.23, duration
\* distance / 30 * 60 = 10.46, and the total is 80 + 78.4 + 26.1 = 184.6 to one
\* decimal.
C27_ExampleFare ==
    ExampleEstimate =>
       \A f \in last.fare :
          /\ ExampleDistance(f) = 523
          /\ ExampleDuration(f) = 1046
          /\ ExampleTenths(f.base_fare) = 800
          /\ ExampleTenths(f.distance_fare) = 784
          /\ ExampleTenths(f.time_fare) = 261
          /\ RoundDiv(f.total, 10) = 1846

\* the example's estimate has been returned by the service's handler
C27_Witness ==
    /\ ExampleEstimate
    /\ impl = "service"
    /\ last.http = HTTP_200_OK
    /\ \E f \in last.fare : f.total > 0

\* a ride as book_ride leaves it
FreshlyBooked(ride) ==
    /\ ride.status = SEARCHING
    /\ ride.driver = {}
    /\ ride.accepted_at = {}
    /\ ride.started_at = {}
    /\ ride.completed_at = {}

\* simulate_ride has begun on the stored ride id, which is freshly booked
SimulationBegun(id) ==
    /\ pc[MainThread].at = "sim_search"
    /\ pc[MainThread].ride_id = id
    /\ id \in DOMAIN rides
    /\ FreshlyBooked(rides[id])

\* simulate_ride has returned and left the ride id completed, in the history
SimulationDone(id) ==
    /\ pc[MainThread].at = "idle"
    /\ last.op = "simulate_ride"
    /\ last.ride_id = id
    /\ last.error = "none"
    /\ id \in DOMAIN rides
    /\ rides[id].status = COMPLETED
    /\ rides[id].driver # {}
    /\ rides[id].accepted_at # {}
    /\ rides[id].started_at # {}
    /\ rides[id].completed_at # {}
    /\ rides[id] \in get_ride_history(rides)

\* the status of the ride while simulate_ride stands at a position
SimulationStatus(at) ==
    CASE at = "sim_accepted" -> ACCEPTED
      [] at = "sim_arriving" -> ARRIVING
      [] at = "sim_in_progress" -> IN_PROGRESS
      [] OTHER -> ""

\* C28: simulate_ride on an existing, freshly booked ride, with nothing
\* interleaved, terminates with the ride COMPLETED after it was ACCEPTED,
\* ARRIVING and IN_PROGRESS in that order, with driver, accepted_at,
\* started_at and completed_at set, and the ride is then in get_ride_history.
C28_SimulateRideCompletes ==
    /\ [](pc[MainThread].at \in {"sim_accepted", "sim_arriving", "sim_in_progress"} =>
            rides[pc[MainThread].ride_id].status = SimulationStatus(pc[MainThread].at))
    /\ [][(pc[MainThread].at # "idle" /\ pc'[MainThread] # pc[MainThread]) =>
            \/ pc[MainThread].at = "sim_search" /\ pc'[MainThread].at = "sim_accepted"
            \/ pc[MainThread].at = "sim_accepted" /\ pc'[MainThread].at = "sim_arriving"
            \/ pc[MainThread].at = "sim_arriving" /\ pc'[MainThread].at = "sim_in_progress"
            \/ pc[MainThread].at = "sim_in_progress" /\ pc'[MainThread].at = "idle"]_vars
    /\ \A id \in RideIds : SimulationBegun(id) ~> SimulationDone(id)

\* simulate_ride has returned on a ride it found freshly booked, and the
\* ride is completed with its driver and its three timestamps in order
C28_Witness ==
    /\ \E id \in RideIds :
          /\ SimulationDone(id)
          /\ last.pre_status = SEARCHING
          /\ \A a \in rides[id].accepted_at, b \in rides[id].started_at,
                c \in rides[id].completed_at : a < b /\ b < c

\* what the claim compares of a ride: status, driver presence, eta, timestamps
RideView(r) ==
    [status |-> r.status, has_driver |-> r.driver # {}, eta_minutes |-> r.eta_minutes,
     created_at |-> r.created_at, accepted_at |-> r.accepted_at,
     started_at |-> r.started_at, completed_at |-> r.completed_at]

\* CabBookingService raises on the call l made on registry rs: only a lookup
\* that finds no ride raises
ServiceRaises(rs, l) == l.op \in LifecycleOps /\ rides_get(rs, l.ride_id) = {}

\* the ride CabBookingService holds after the call l on ride r at time t, with
\* the eta and the driver the call drew
ServiceRide(r, l, t, eta) ==
    CASE l.op = "assign_driver" ->
            assign_driver(r, CHOOSE d \in l.driver \cup {generate_random(t, 0)} : TRUE, t, eta)
      [] l.op = "update_ride_status" -> update_ride_status(r, l.target, t)
      [] l.op = "cancel_ride" -> cancel_ride(r)
      [] OTHER -> r

\* C29: the two implementations are behaviourally equivalent: on the same
\* calls with the same arguments and random choices CabBookingSystem raises
\* exactly when CabBookingService raises, and holds rides with the same
\* status, driver presence, eta and timestamps after every call.
C29_ImplementationsEquivalent ==
    [][(/\ Finishes
        /\ last'.error # "KeyError"
        /\ last'.op \in LifecycleOps \cup {"book_ride", "get_ride_history"}) =>
         /\ (last'.error # "none") <=> ServiceRaises(rides, last')
         /\ (last'.op \in LifecycleOps /\ ~ServiceRaises(rides, last')) =>
               /\ RideView(rides'[last'.ride_id])
                     = RideView(ServiceRide(rides[last'.ride_id], last', now,
                                            rides'[last'.ride_id].eta_minutes))
               /\ \A id \in DOMAIN rides \ {last'.ride_id} : rides'[id] = rides[id]]_vars

\* C30: in every reachable state a ride's timestamps agree with its status:
\* completed_at is set exactly when the status is COMPLETED, started_at
\* exactly when it is IN_PROGRESS or COMPLETED, and accepted_at is set when
\* the status is ACCEPTED, ARRIVING, IN_PROGRESS or COMPLETED and unset when
\* it is SEARCHING.
C30_TimestampsAgreeWithStatus ==
    \A id \in DOMAIN rides :
       LET r == rides[id]
       IN /\ (r.completed_at # {}) <=> (r.status = COMPLETED)
          /\ (r.started_at # {}) <=> (r.status \in {IN_PROGRESS, COMPLETED})
          /\ r.status \in {ACCEPTED, ARRIVING, IN_PROGRESS, COMPLETED} => r.accepted_at # {}
          /\ r.status = SEARCHING => r.accepted_at = {}

====
